---------------------------- MODULE Spec2Model ----------------------------
(***************************************************************************)
(* Model of src/file_diff_gui.py: the line normalizer, the ndiff call of   *)
(* DiffGUI.compare (difflib.Differ over difflib.SequenceMatcher, as the    *)
(* CPython 3.11 library computes it) and the handlers of the DiffGUI       *)
(* window.                                                                 *)
(*                                                                         *)
(* A character is a one-character string, a line is a sequence of          *)
(* characters, a file is a sequence of lines.  Indexes into sequences are  *)
(* Python's: 0-based, ranges half-open (At(s, i) is s[i]).                 *)
(***************************************************************************)
EXTENDS Integers, Sequences, FiniteSets, TLC

VARIABLES
    fsA, fsB,          \* the lines read_text returns for the two files on disk
    file1, file2,      \* DiffGUI.file1 / file2 (StringVar): the chosen paths
    ignore_case,       \* DiffGUI.ignore_case (BooleanVar)
    ignore_ws,         \* DiffGUI.ignore_ws (BooleanVar)
    text,              \* DiffGUI.text: what was inserted, in order, with its tag
    status,            \* DiffGUI.status (StringVar)
    last_diff_lines,   \* DiffGUI.last_diff_lines
    dialog,            \* the message box shown by the last handler, "" if none
    saved,             \* <<content>> of the file save_diff wrote last, <<>> if none
    nlines, nic, niw,  \* normalizer runs: arguments of normalize_lines
    nout, nagain,      \* normalizer runs: the result, the result normalized again
    npass,             \* normalizer runs: passes applied
    da, db,            \* differ runs: arguments of difflib.ndiff
    dout, dback, dpc   \* differ runs: ndiff(a, b), ndiff(b, a), position

guivars  == <<fsA, fsB, file1, file2, ignore_case, ignore_ws, text, status,
              last_diff_lines, dialog, saved>>
normvars == <<nlines, nic, niw, nout, nagain, npass>>
diffvars == <<da, db, dout, dback, dpc>>
vars     == <<guivars, normvars, diffvars>>

At(s, i) == s[i + 1]
Rep(c, n) == [k \in 1..n |-> c]
Min(x, y) == IF x < y THEN x ELSE y

RECURSIVE Concat(_)
Concat(ss) == IF ss = <<>> THEN <<>> ELSE Head(ss) \o Concat(Tail(ss))

startswith(s, p) == Len(s) >= Len(p) /\ SubSeq(s, 1, Len(p)) = p

---------------------------------------------------------------------------
(* Characters.  "U+00DF" stands for the one character sharp s, whose case  *)
(* folding is the two characters "ss".                                     *)

Whitespace == {" ", "\t"}
isspace(c) == c \in Whitespace

casefold_char(c) ==
    CASE c = "A" -> <<"a">>
      [] c = "B" -> <<"b">>
      [] c = "C" -> <<"c">>
      [] c = "D" -> <<"d">>
      [] c = "U+00DF" -> <<"s", "s">>
      [] OTHER -> <<c>>

\* str.casefold
casefold(s) == Concat([k \in 1..Len(s) |-> casefold_char(s[k])])

RECURSIVE WordLen(_)
WordLen(s) ==
    IF s = <<>> \/ isspace(Head(s)) THEN 0 ELSE 1 + WordLen(Tail(s))

\* str.split() without arguments: the maximal runs of non-whitespace
RECURSIVE split(_)
split(s) ==
    IF s = <<>> THEN <<>>
    ELSE IF isspace(Head(s)) THEN split(Tail(s))
    ELSE LET n == WordLen(s)
         IN  <<SubSeq(s, 1, n)>> \o split(SubSeq(s, n + 1, Len(s)))

\* sep.join(words)
RECURSIVE join(_, _)
join(sep, words) ==
    IF words = <<>> THEN <<>>
    ELSE IF Len(words) = 1 THEN words[1]
    ELSE words[1] \o sep \o join(sep, Tail(words))

\* str.rstrip()
RECURSIVE rstrip(_)
rstrip(s) ==
    IF s # <<>> /\ isspace(s[Len(s)]) THEN rstrip(SubSeq(s, 1, Len(s) - 1))
    ELSE s

---------------------------------------------------------------------------
(* normalize_lines                                                         *)

\* str.replace("  ", " ")
RECURSIVE replace_double(_)
replace_double(s) ==
    IF s = <<>> THEN <<>>
    ELSE IF Len(s) >= 2 /\ s[1] = " " /\ s[2] = " "
    THEN <<" ">> \o replace_double(SubSeq(s, 3, Len(s)))
    ELSE <<s[1]>> \o replace_double(Tail(s))

\* variant of the loop body: whitespace collapsed by one pass of replace
normalize_line_replace(line, ic, iw) ==
    IF ic
    THEN casefold(IF iw THEN replace_double(line) ELSE line)
    ELSE IF iw THEN replace_double(line) ELSE line

\* the body of the for loop: lines 17-21
normalize_line(line, ic, iw) ==
    LET s1 == IF iw THEN join(<<" ">>, split(line)) ELSE line
    IN  IF ic THEN casefold(s1) ELSE s1

\* variant of the loop: a line that normalizes to "" is not appended
RECURSIVE normalize_loop_skip_blank(_, _, _, _)
normalize_loop_skip_blank(norm, lines, ic, iw) ==
    IF lines = <<>> THEN norm
    ELSE normalize_loop_skip_blank(
            IF normalize_line(Head(lines), ic, iw) = <<>> THEN norm
            ELSE Append(norm, normalize_line(Head(lines), ic, iw)),
            Tail(lines), ic, iw)

\* the loop, with norm the list built so far
RECURSIVE normalize_loop(_, _, _, _)
normalize_loop(norm, lines, ic, iw) ==
    IF lines = <<>> THEN norm
    ELSE normalize_loop(Append(norm, normalize_line(Head(lines), ic, iw)),
                        Tail(lines), ic, iw)

normalize_lines(lines, ic, iw) == normalize_loop(<<>>, lines, ic, iw)

---------------------------------------------------------------------------
(* difflib.SequenceMatcher(isjunk, a, b), junk the set of elements of b    *)
(* for which isjunk holds.  The autojunk heuristic needs len(b) >= 200 and *)
(* is out of reach of the bounds below.                                    *)

\* j2len[j] when the outer loop is at i: the length of the run of matching
\* non-junk elements that ends at a[i], b[j] and stays inside the window
RECURSIVE j2len(_, _, _, _, _, _, _)
j2len(a, b, junk, alo, blo, i, j) ==
    IF i < alo \/ j < blo THEN 0
    ELSE IF At(b, j) \in junk \/ At(a, i) # At(b, j) THEN 0
    ELSE 1 + j2len(a, b, junk, alo, blo, i - 1, j - 1)

RECURSIVE extend_back(_, _, _, _, _, _, _)
extend_back(a, b, junk, alo, blo, m, wantjunk) ==
    IF /\ m[1] > alo /\ m[2] > blo
       /\ ((At(b, m[2] - 1) \in junk) = wantjunk)
       /\ At(a, m[1] - 1) = At(b, m[2] - 1)
    THEN extend_back(a, b, junk, alo, blo, <<m[1] - 1, m[2] - 1, m[3] + 1>>, wantjunk)
    ELSE m

RECURSIVE extend_fwd(_, _, _, _, _, _, _)
extend_fwd(a, b, junk, ahi, bhi, m, wantjunk) ==
    IF /\ m[1] + m[3] < ahi /\ m[2] + m[3] < bhi
       /\ ((At(b, m[2] + m[3]) \in junk) = wantjunk)
       /\ At(a, m[1] + m[3]) = At(b, m[2] + m[3])
    THEN extend_fwd(a, b, junk, ahi, bhi, <<m[1], m[2], m[3] + 1>>, wantjunk)
    ELSE m

\* the (i, j, k) at which the double loop of find_longest_match sets
\* newj2len[j] = k
RunEnds(a, b, junk, alo, ahi, blo, bhi) ==
    {t \in {<<e[1], e[2], j2len(a, b, junk, alo, blo, e[1], e[2])>> :
               e \in (alo..(ahi - 1)) \X (blo..(bhi - 1))} : t[3] > 0}

\* k > bestsize is strict: the first end, i ascending then j ascending,
\* that reaches the largest size stays the best
BestEnd(T) ==
    CHOOSE t \in T :
        \A u \in T :
            \/ u[3] < t[3]
            \/ /\ u[3] = t[3]
               /\ (t[1] < u[1] \/ (t[1] = u[1] /\ t[2] <= u[2]))

\* (besti, bestj, bestsize) when the double loop ends
longest_run(T, alo, blo) ==
    IF T = {} THEN <<alo, blo, 0>>
    ELSE <<BestEnd(T)[1] - BestEnd(T)[3] + 1, BestEnd(T)[2] - BestEnd(T)[3] + 1,
           BestEnd(T)[3]>>

\* the four while loops: non-junk on both sides, then junk on both sides
extend_match(a, b, junk, alo, ahi, blo, bhi, m) ==
    extend_fwd(a, b, junk, ahi, bhi,
        extend_back(a, b, junk, alo, blo,
            extend_fwd(a, b, junk, ahi, bhi,
                extend_back(a, b, junk, alo, blo, m, FALSE),
                FALSE),
            TRUE),
        TRUE)

\* SequenceMatcher.find_longest_match: <<besti, bestj, bestsize>>
find_longest_match(a, b, junk, alo, ahi, blo, bhi) ==
    extend_match(a, b, junk, alo, ahi, blo, bhi,
                 longest_run(RunEnds(a, b, junk, alo, ahi, blo, bhi), alo, blo))

\* the queue of get_matching_blocks, followed by its sort(): the blocks left
\* of the longest match x, x, the blocks right of it
RECURSIVE match_queue(_, _, _, _, _, _, _)
RECURSIVE match_split(_, _, _, _, _, _, _, _)
match_split(a, b, junk, alo, ahi, blo, bhi, x) ==
    IF x[3] = 0 THEN <<>>
    ELSE (IF alo < x[1] /\ blo < x[2]
          THEN match_queue(a, b, junk, alo, x[1], blo, x[2]) ELSE <<>>)
         \o <<x>>
         \o (IF x[1] + x[3] < ahi /\ x[2] + x[3] < bhi
             THEN match_queue(a, b, junk, x[1] + x[3], ahi, x[2] + x[3], bhi)
             ELSE <<>>)

match_queue(a, b, junk, alo, ahi, blo, bhi) ==
    match_split(a, b, junk, alo, ahi, blo, bhi,
                find_longest_match(a, b, junk, alo, ahi, blo, bhi))

\* the loop that collapses adjacent equal blocks; cur is (i1, j1, k1)
RECURSIVE collapse(_, _, _)
collapse(blocks, cur, acc) ==
    IF blocks = <<>>
    THEN IF cur[3] # 0 THEN Append(acc, cur) ELSE acc
    ELSE LET nx == Head(blocks)
         IN  IF cur[1] + cur[3] = nx[1] /\ cur[2] + cur[3] = nx[2]
             THEN collapse(Tail(blocks), <<cur[1], cur[2], cur[3] + nx[3]>>, acc)
             ELSE collapse(Tail(blocks), nx,
                           IF cur[3] # 0 THEN Append(acc, cur) ELSE acc)

\* SequenceMatcher.get_matching_blocks, with the closing (la, lb, 0)
get_matching_blocks(a, b, junk) ==
    Append(collapse(match_queue(a, b, junk, 0, Len(a), 0, Len(b)),
                    <<0, 0, 0>>, <<>>),
           <<Len(a), Len(b), 0>>)

\* the loop of get_opcodes over the matching blocks, from position (i, j)
RECURSIVE opcode_loop(_, _, _)
opcode_loop(blocks, i, j) ==
    IF blocks = <<>> THEN <<>>
    ELSE LET ai == Head(blocks)[1]
             bj == Head(blocks)[2]
             size == Head(blocks)[3]
             tag == IF i < ai /\ j < bj THEN "replace"
                    ELSE IF i < ai THEN "delete"
                    ELSE IF j < bj THEN "insert"
                    ELSE ""
         IN  (IF tag # "" THEN <<<<tag, i, ai, j, bj>>>> ELSE <<>>)
             \o (IF size # 0
                 THEN <<<<"equal", ai, ai + size, bj, bj + size>>>> ELSE <<>>)
             \o opcode_loop(Tail(blocks), ai + size, bj + size)

\* SequenceMatcher.get_opcodes
get_opcodes(a, b, junk) == opcode_loop(get_matching_blocks(a, b, junk), 0, 0)

RECURSIVE SumSizes(_)
SumSizes(blocks) ==
    IF blocks = <<>> THEN 0 ELSE Head(blocks)[3] + SumSizes(Tail(blocks))

\* SequenceMatcher.ratio: 2.0 * matches / length as the fraction num / den
ratio(a, b, junk) ==
    LET length == Len(a) + Len(b)
    IN  IF length = 0 THEN [num |-> 1, den |-> 1]
        ELSE [num |-> 2 * SumSizes(get_matching_blocks(a, b, junk)),
              den |-> length]

RatioLess(r, s) == r.num * s.den < s.num * r.den

---------------------------------------------------------------------------
(* difflib.ndiff(a, b) = Differ(linejunk=None,                             *)
(* charjunk=IS_CHARACTER_JUNK).compare(a, b), called at line 138.          *)

\* IS_CHARACTER_JUNK: blank and tab
CharJunk == {" ", "\t"}

\* the junk elements of line b under charjunk
JunkOf(b) == {b[k] : k \in 1..Len(b)} \cap CharJunk

\* variant of _dump: the range stops one line early
dump_short(tag, x, lo, hi) ==
    [k \in 1..(hi - lo - 1) |-> <<tag, " ">> \o At(x, lo + k - 1)]

\* Differ._dump
dump(tag, x, lo, hi) ==
    [k \in 1..(hi - lo) |-> <<tag, " ">> \o At(x, lo + k - 1)]

\* variant of _plain_replace: the deletions always come first
plain_replace_deletions_first(a, alo, ahi, b, blo, bhi) ==
    dump("-", a, alo, ahi) \o dump("+", b, blo, bhi)

\* Differ._plain_replace: the shorter block is dumped first
plain_replace(a, alo, ahi, b, blo, bhi) ==
    IF bhi - blo < ahi - alo
    THEN dump("+", b, blo, bhi) \o dump("-", a, alo, ahi)
    ELSE dump("-", a, alo, ahi) \o dump("+", b, blo, bhi)

\* _keep_original_ws
keep_original_ws(s, tag_s) ==
    [k \in 1..Min(Len(s), Len(tag_s)) |->
        IF tag_s[k] = " " /\ isspace(s[k]) THEN s[k] ELSE tag_s[k]]

\* variant of _qformat: each hint is yielded before the line it marks
qformat_hints_first(aline, bline, atags, btags) ==
    (IF rstrip(keep_original_ws(aline, atags)) # <<>>
     THEN <<<<"?", " ">> \o rstrip(keep_original_ws(aline, atags)) \o <<"\n">>>>
     ELSE <<>>)
    \o <<<<"-", " ">> \o aline>>
    \o (IF rstrip(keep_original_ws(bline, btags)) # <<>>
        THEN <<<<"?", " ">> \o rstrip(keep_original_ws(bline, btags)) \o <<"\n">>>>
        ELSE <<>>)
    \o <<<<"+", " ">> \o bline>>

\* Differ._qformat
qformat(aline, bline, atags, btags) ==
    LET at == rstrip(keep_original_ws(aline, atags))
        bt == rstrip(keep_original_ws(bline, btags))
    IN  <<<<"-", " ">> \o aline>>
        \o (IF at # <<>> THEN <<<<"?", " ">> \o at \o <<"\n">>>> ELSE <<>>)
        \o <<<<"+", " ">> \o bline>>
        \o (IF bt # <<>> THEN <<<<"?", " ">> \o bt \o <<"\n">>>> ELSE <<>>)

\* the marks one opcode of the synch pair adds to atags and btags
tag_pair(op) ==
    CASE op[1] = "replace" -> <<Rep("^", op[3] - op[2]), Rep("^", op[5] - op[4])>>
      [] op[1] = "delete"  -> <<Rep("-", op[3] - op[2]), <<>>>>
      [] op[1] = "insert"  -> <<<<>>, Rep("+", op[5] - op[4])>>
      [] op[1] = "equal"   -> <<Rep(" ", op[3] - op[2]), Rep(" ", op[5] - op[4])>>

PairCat(t, u) == <<t[1] \o u[1], t[2] \o u[2]>>

\* the intraline marking loop of _fancy_replace: <<atags, btags>>
RECURSIVE intraline_tags(_)
intraline_tags(ops) ==
    IF ops = <<>> THEN <<<<>>, <<>>>>
    ELSE PairCat(tag_pair(Head(ops)), intraline_tags(Tail(ops)))

qformat_tags(aelt, belt, tags) == qformat(aelt, belt, tags[1], tags[2])

\* the '-', '?', '+', '?' quad of a synch pair that is not identical
marked_pair(aelt, belt) ==
    qformat_tags(aelt, belt,
                 intraline_tags(get_opcodes(aelt, belt, JunkOf(belt))))

InitialBestRatio == [num |-> 74, den |-> 100]
Cutoff == [num |-> 75, den |-> 100]

\* the innermost test of the search loop, r being cruncher.ratio();
\* real_quick_ratio and quick_ratio are upper bounds of ratio, so the
\* three-way test is the test on ratio
keep_better(st, i, j, r) ==
    IF RatioLess(st.best_ratio, r)
    THEN [st EXCEPT !.best_ratio = r, !.best = <<i, j>>]
    ELSE st

\* one pass of the inner loop on the lines ai = a[i], bj = b[j]
search_step(st, i, j, ai, bj) ==
    IF ai = bj
    THEN IF st.eq = <<>> THEN [st EXCEPT !.eq = <<i, j>>] ELSE st
    ELSE keep_better(st, i, j, ratio(ai, bj, JunkOf(bj)))

\* the search loop of _fancy_replace, j outer and i inner, n the number of
\* pairs visited; st holds best_ratio, best (best_i, best_j) and eq (eqi, eqj),
\* an unset pair being <<>>
RECURSIVE search_pairs(_, _, _, _, _, _, _, _)
search_pairs(a, alo, ahi, b, blo, bhi, n, st) ==
    IF n = (bhi - blo) * (ahi - alo) THEN st
    ELSE search_pairs(a, alo, ahi, b, blo, bhi, n + 1,
            search_step(st, alo + (n % (ahi - alo)), blo + (n \div (ahi - alo)),
                        At(a, alo + (n % (ahi - alo))),
                        At(b, blo + (n \div (ahi - alo)))))

RECURSIVE fancy_replace(_, _, _, _, _, _)
RECURSIVE fancy_helper(_, _, _, _, _, _)

\* the tail of _fancy_replace: the diffs before the synch pair, the synch
\* pair as middle, the diffs after it
fancy_emit(a, alo, ahi, b, blo, bhi, best_i, best_j, middle) ==
    fancy_helper(a, alo, best_i, b, blo, best_j)
    \o middle
    \o fancy_helper(a, best_i + 1, ahi, b, best_j + 1, bhi)

\* _fancy_replace after its search loop ended in st
fancy_synch(a, alo, ahi, b, blo, bhi, st) ==
    IF RatioLess(st.best_ratio, Cutoff)
    THEN IF st.eq = <<>>
         THEN plain_replace(a, alo, ahi, b, blo, bhi)
         ELSE fancy_emit(a, alo, ahi, b, blo, bhi, st.eq[1], st.eq[2],
                         <<<<" ", " ">> \o At(a, st.eq[1])>>)
    ELSE fancy_emit(a, alo, ahi, b, blo, bhi, st.best[1], st.best[2],
                    marked_pair(At(a, st.best[1]), At(b, st.best[2])))

\* Differ._fancy_replace
fancy_replace(a, alo, ahi, b, blo, bhi) ==
    fancy_synch(a, alo, ahi, b, blo, bhi,
                search_pairs(a, alo, ahi, b, blo, bhi, 0,
                             [best_ratio |-> InitialBestRatio, best |-> <<>>,
                              eq |-> <<>>]))

\* variant of _fancy_helper: the branch for lines left only in b is missing
fancy_helper_no_insert(a, alo, ahi, b, blo, bhi) ==
    IF alo < ahi
    THEN IF blo < bhi THEN fancy_replace(a, alo, ahi, b, blo, bhi)
         ELSE dump("-", a, alo, ahi)
    ELSE <<>>

\* Differ._fancy_helper
fancy_helper(a, alo, ahi, b, blo, bhi) ==
    IF alo < ahi
    THEN IF blo < bhi THEN fancy_replace(a, alo, ahi, b, blo, bhi)
         ELSE dump("-", a, alo, ahi)
    ELSE IF blo < bhi THEN dump("+", b, blo, bhi)
    ELSE <<>>

\* the lines Differ.compare yields for one opcode
differ_op(op, a, b) ==
    CASE op[1] = "replace" -> fancy_replace(a, op[2], op[3], b, op[4], op[5])
      [] op[1] = "delete"  -> dump("-", a, op[2], op[3])
      [] op[1] = "insert"  -> dump("+", b, op[4], op[5])
      [] op[1] = "equal"   -> dump(" ", a, op[2], op[3])

\* the loop of Differ.compare over the opcodes of the two line sequences
RECURSIVE differ_loop(_, _, _)
differ_loop(ops, a, b) ==
    IF ops = <<>> THEN <<>>
    ELSE differ_op(Head(ops), a, b) \o differ_loop(Tail(ops), a, b)

\* list(difflib.ndiff(a, b)); linejunk is None, so no line is junk
ndiff(a, b) == differ_loop(get_opcodes(a, b, {}), a, b)

---------------------------------------------------------------------------
(* Inputs.  A file on disk is given by the lines read_text returns for it. *)

MaxFileLines == 2
MaxDiffLines == 2
MaxNormLines == 2

RECURSIVE SeqsUpTo(_, _)
SeqsUpTo(S, n) ==
    IF n = 0 THEN {<<>>}
    ELSE LET shorter == SeqsUpTo(S, n - 1)
         IN  shorter \cup {Append(q, x) : q \in shorter, x \in S}

\* lines of the two files the window compares: the same words, equal or
\* different in case only, in spacing only, or in both
FileLinesA == {<<"a", " ", "B">>, <<"a", " ", "b">>}
FileLinesB == {<<"a", " ", "b">>, <<" ", "a", " ", " ", "b">>}

\* lines given to ndiff: near matches, and lines with nothing in common
DiffLines == {<<"a", "b", "c", "d">>, <<"a", "b", "c", "e">>,
              <<"a", "b", "c", "d", "e">>, <<"\t", "a", "b", "c", "d">>,
              <<"x", "y">>, <<"z", "w">>}

\* lines given to normalize_lines
NormAlphabet == {"a", "A", " ", "U+00DF"}
NormLines == SeqsUpTo(NormAlphabet, 2)
             \cup {<<"a", " ", " ", " ", "b">>, <<" ", "A", "\t", "U+00DF", " ">>}

---------------------------------------------------------------------------
(* The DiffGUI window                                                      *)

GuiIdle ==
    /\ fsA = <<>> /\ fsB = <<>> /\ file1 = "" /\ file2 = ""
    /\ ignore_case = FALSE /\ ignore_ws = FALSE
    /\ text = <<>> /\ status = <<"Pick two files and click Compare.">>
    /\ last_diff_lines = <<>> /\ dialog = "" /\ saved = <<>>
NormIdle ==
    /\ nlines = <<>> /\ nic = FALSE /\ niw = FALSE
    /\ nout = <<>> /\ nagain = <<>> /\ npass = 0
DiffIdle ==
    /\ da = <<>> /\ db = <<>> /\ dout = <<>> /\ dback = <<>> /\ dpc = "idle"

\* DiffGUI.__init__, with two files on disk
Init ==
    /\ fsA \in SeqsUpTo(FileLinesA, MaxFileLines)
    /\ fsB \in SeqsUpTo(FileLinesB, MaxFileLines)
    /\ file1 = "" /\ file2 = ""
    /\ ignore_case = FALSE /\ ignore_ws = FALSE
    /\ text = <<>>
    /\ status = <<"Pick two files and click Compare.">>
    /\ last_diff_lines = <<>>
    /\ dialog = ""
    /\ saved = <<>>
    /\ NormIdle /\ DiffIdle

\* the file dialog of pick_file1 returns "" when cancelled
pick_file1 ==
    /\ \E path \in {"", "a.txt"} :
          file1' = IF path # "" THEN path ELSE file1
    /\ dialog' = ""
    /\ UNCHANGED <<fsA, fsB, file2, ignore_case, ignore_ws, text, status,
                   last_diff_lines, saved, normvars, diffvars>>

pick_file2 ==
    /\ \E path \in {"", "b.txt"} :
          file2' = IF path # "" THEN path ELSE file2
    /\ dialog' = ""
    /\ UNCHANGED <<fsA, fsB, file1, ignore_case, ignore_ws, text, status,
                   last_diff_lines, saved, normvars, diffvars>>

\* the two Checkbuttons
toggle_ignore_case ==
    /\ ignore_case' = ~ignore_case
    /\ dialog' = ""
    /\ UNCHANGED <<fsA, fsB, file1, file2, ignore_ws, text, status,
                   last_diff_lines, saved, normvars, diffvars>>

toggle_ignore_ws ==
    /\ ignore_ws' = ~ignore_ws
    /\ dialog' = ""
    /\ UNCHANGED <<fsA, fsB, file1, file2, ignore_case, text, status,
                   last_diff_lines, saved, normvars, diffvars>>

clear ==
    /\ text' = <<>>
    /\ status' = <<"Cleared.">>
    /\ last_diff_lines' = <<>>
    /\ dialog' = ""
    /\ UNCHANGED <<fsA, fsB, file1, file2, ignore_case, ignore_ws, saved,
                   normvars, diffvars>>

\* the tag insert_line gives a line; "" is the untagged fallback
insert_line_tag(line) ==
    IF startswith(line, <<"+">>) THEN "plus"
    ELSE IF startswith(line, <<"-">>) THEN "minus"
    ELSE IF startswith(line, <<"?">>) THEN "hint"
    ELSE IF \/ startswith(line, <<"-", "-", "-">>)
            \/ startswith(line, <<"+", "+", "+">>)
            \/ startswith(line, <<"@", "@">>) THEN "meta"
    ELSE IF startswith(line, <<" ">>) THEN "ctx"
    ELSE ""

\* what insert_line appends to the text widget
insert_line(line) == [s |-> line, tag |-> insert_line_tag(line)]

\* sum(1 for l in diff if l.startswith(prefix))
CountPrefix(diff, prefix) ==
    Cardinality({k \in 1..Len(diff) : startswith(diff[k], prefix)})

\* the lines a path reads as
Content(path) == IF path = "a.txt" THEN fsA ELSE fsB

\* the four header strings, inserted with tag meta
Header(path1, path2, added, removed, changed_hints) ==
    << [s |-> <<"Comparing:", path1, path2>>, tag |-> "meta"],
       [s |-> <<"Options:", ignore_case, ignore_ws>>, tag |-> "meta"],
       [s |-> <<"Summary:", added, removed, changed_hints>>, tag |-> "meta"],
       [s |-> Rep("-", 80) \o <<"\n">>, tag |-> "meta"] >>

\* lines 145-167 of compare: self.clear(), then the header and the lines of
\* diff are inserted and stored, then the status is set
show_counts(path1, path2, diff, added, removed, changed_hints) ==
    /\ text' = Header(path1, path2, added, removed, changed_hints)
               \o [k \in 1..Len(diff) |-> insert_line(diff[k] \o <<"\n">>)]
    /\ last_diff_lines' = [k \in 1..Len(diff) |-> diff[k] \o <<"\n">>]
    /\ status' = <<"Done.", added, removed, changed_hints>>
    /\ dialog' = ""
    /\ UNCHANGED <<fsA, fsB, file1, file2, ignore_case, ignore_ws, saved,
                   normvars, diffvars>>

\* lines 140-143 of compare: the counts of diff
show_diff(path1, path2, diff) ==
    show_counts(path1, path2, diff,
                CountPrefix(diff, <<"+", " ">>),
                CountPrefix(diff, <<"-", " ">>),
                CountPrefix(diff, <<"?", " ">>))

\* variant of lines 133-138: ndiff is given the lines as read
diff_lines_raw(lines1, lines2) == ndiff(lines1, lines2)

\* lines 133-138 of compare: normalize both files, then ndiff
diff_lines(lines1, lines2) ==
    ndiff(normalize_lines(lines1, ignore_case, ignore_ws),
          normalize_lines(lines2, ignore_case, ignore_ws))

\* lines 128-167 of compare, both files read
compare_show(path1, path2) ==
    show_diff(path1, path2, diff_lines(Content(path1), Content(path2)))

\* a handler that only shows a message box
OnlyDialog(title) ==
    /\ dialog' = title
    /\ UNCHANGED <<fsA, fsB, file1, file2, ignore_case, ignore_ws, text,
                   status, last_diff_lines, saved, normvars, diffvars>>

\* a handler that clears the window, then only shows a message box
ClearThenDialog(title) ==
    /\ text' = <<>>
    /\ status' = <<"Cleared.">>
    /\ last_diff_lines' = <<>>
    /\ dialog' = title
    /\ UNCHANGED <<fsA, fsB, file1, file2, ignore_case, ignore_ws, saved,
                   normvars, diffvars>>

\* variant of compare: self.clear() is called before the paths are checked
compare_clear_first ==
    IF file1 = "" \/ file2 = ""
    THEN ClearThenDialog("Missing file")
    ELSE \E both_exist, both_read \in BOOLEAN :
            IF ~both_exist
            THEN ClearThenDialog("Invalid file")
            ELSE IF ~both_read
            THEN ClearThenDialog("Read error")
            ELSE compare_show(file1, file2)

\* DiffGUI.compare; whether a path exists and can be read is the disk's
\* choice.  The paths come from the file dialogs, so strip() leaves them as
\* they are.
compare ==
    LET path1 == file1
        path2 == file2
    IN  IF path1 = "" \/ path2 = ""
        THEN OnlyDialog("Missing file")
        ELSE \E both_exist, both_read \in BOOLEAN :
                IF ~both_exist
                THEN OnlyDialog("Invalid file")
                ELSE IF ~both_read
                THEN OnlyDialog("Read error")
                ELSE compare_show(path1, path2)

\* DiffGUI.save_diff; the save dialog may be cancelled, the write may fail.
\* saved is the content of the last write that succeeded.
save_diff ==
    IF last_diff_lines = <<>>
    THEN OnlyDialog("No diff")
    ELSE \E outcome \in {"cancelled", "written", "failed"} :
            CASE outcome = "cancelled" -> OnlyDialog("")
              [] outcome = "failed" -> OnlyDialog("Save error")
              [] outcome = "written" ->
                    /\ saved' = <<Concat(last_diff_lines)>>
                    /\ status' = <<"Saved diff to">>
                    /\ dialog' = ""
                    /\ UNCHANGED <<fsA, fsB, file1, file2, ignore_case,
                                   ignore_ws, text, last_diff_lines,
                                   normvars, diffvars>>

Next ==
    \/ pick_file1
    \/ pick_file2
    \/ toggle_ignore_case
    \/ toggle_ignore_ws
    \/ clear
    \/ compare
    \/ save_diff

Spec == Init /\ [][Next]_vars

---------------------------------------------------------------------------
(* normalize_lines on its own: one call, then a second call on the result  *)

InitNorm ==
    /\ nlines \in SeqsUpTo(NormLines, MaxNormLines)
    /\ nic \in BOOLEAN
    /\ niw \in BOOLEAN
    /\ nout = <<>> /\ nagain = <<>> /\ npass = 0
    /\ GuiIdle /\ DiffIdle

normalize_once ==
    /\ npass = 0
    /\ nout' = normalize_lines(nlines, nic, niw)
    /\ npass' = 1
    /\ UNCHANGED <<nlines, nic, niw, nagain, guivars, diffvars>>

normalize_again ==
    /\ npass = 1
    /\ nagain' = normalize_lines(nout, nic, niw)
    /\ npass' = 2
    /\ UNCHANGED <<nlines, nic, niw, nout, guivars, diffvars>>

NextNorm == normalize_once \/ normalize_again

SpecNorm == InitNorm /\ [][NextNorm]_vars

---------------------------------------------------------------------------
(* difflib.ndiff on its own: ndiff(a, b), then ndiff(b, a)                 *)

InitDiff ==
    /\ da \in SeqsUpTo(DiffLines, MaxDiffLines)
    /\ db \in SeqsUpTo(DiffLines, MaxDiffLines)
    /\ dout = <<>> /\ dback = <<>> /\ dpc = "start"
    /\ GuiIdle /\ NormIdle

run_ndiff ==
    /\ dpc = "start"
    /\ dout' = ndiff(da, db)
    /\ dpc' = "forward"
    /\ UNCHANGED <<da, db, dback, guivars, normvars>>

run_ndiff_back ==
    /\ dpc = "forward"
    /\ dback' = ndiff(db, da)
    /\ dpc' = "both"
    /\ UNCHANGED <<da, db, dout, guivars, normvars>>

NextDiff == run_ndiff \/ run_ndiff_back

SpecDiff == InitDiff /\ [][NextDiff]_vars

---------------------------------------------------------------------------
(* Reading a diff: a record is a line of ndiff, its first character the    *)
(* kind ("  " Context, "+ " Insertion, "- " Deletion, "? " Hint)           *)

Kind(l) == l[1]
IsHint(l) == Kind(l) = "?"
IsContext(l) == Kind(l) = " "
IsInsertion(l) == Kind(l) = "+"
IsDeletion(l) == Kind(l) = "-"
TextOf(l) == SubSeq(l, 3, Len(l))
Range(q) == {q[k] : k \in 1..Len(q)}

\* the (kind, text) records of a diff, Hint records dropped
Records(d) ==
    LET kept == SelectSeq(d, LAMBDA l : ~IsHint(l))
    IN  [k \in 1..Len(kept) |-> <<Kind(kept[k]), TextOf(kept[k])>>]

SwapKind(c) == IF c = "+" THEN "-" ELSE IF c = "-" THEN "+" ELSE c
Swapped(rs) == [k \in 1..Len(rs) |-> <<SwapKind(rs[k][1]), rs[k][2]>>]

\* the texts, in order, of the records of the given kinds
TextsOf(rs, kinds) ==
    LET kept == SelectSeq(rs, LAMBDA r : r[1] \in kinds)
    IN  [k \in 1..Len(kept) |-> kept[k][2]]

\* what the window shows below the header, and the header's fields
Body == SelectSeq(text, LAMBDA e : e.tag # "meta")
ShownLines == [k \in 1..Len(Body) |-> Body[k].s]
ShownOptions == text[2].s
ShownSummary == text[3].s

\* a line as the window stores it, without the "\n" compare appends
Stored(l) == SubSeq(l, 1, Len(l) - 1)

---------------------------------------------------------------------------
(* Claims                                                                  *)

\* C1: the text of every Context, Insertion and Deletion record that
\* compare() displays and stores in last_diff_lines is an original,
\* unnormalized line of file A or of file B.
C1_OriginalLines ==
    \A k \in 1..Len(last_diff_lines) :
        ~IsHint(last_diff_lines[k]) =>
            /\ TextOf(Stored(last_diff_lines[k])) \in Range(fsA) \cup Range(fsB)
            /\ k <= Len(ShownLines)
            /\ ShownLines[k] = last_diff_lines[k]

\* C2: dropping Hint records, the Context and Deletion records of
\* ndiff(a, b) are, in output order, exactly the lines of a, and the Context
\* and Insertion records are exactly the lines of b.
C2_MergedWalk ==
    dpc # "start" =>
        /\ TextsOf(Records(dout), {" ", "-"}) = da
        /\ TextsOf(Records(dout), {" ", "+"}) = db

C2_Witness ==
    /\ dpc # "start"
    /\ \E i, j, k, h \in 1..Len(dout) :
          /\ IsContext(dout[i]) /\ IsDeletion(dout[j])
          /\ IsInsertion(dout[k]) /\ IsHint(dout[h])

Disjoint(a, b) == Range(a) \cap Range(b) = {}
AllDeletions(a) == [k \in 1..Len(a) |-> <<"-", " ">> \o a[k]]
AllInsertions(b) == [k \in 1..Len(b) |-> <<"+", " ">> \o b[k]]

\* no line of a and line of b reach the similarity cutoff of ndiff
NoClosePair(a, b) ==
    \A i \in 1..Len(a), j \in 1..Len(b) :
        RatioLess(ratio(a[i], b[j], JunkOf(b[j])), Cutoff)

\* C3 as stated: for non-empty a and b with no line in common, whatever
\* their lengths, ndiff(a, b) is all Deletions (the lines of a) followed by
\* all Insertions (the lines of b), with no Hint and no Context record.
C3_DeletionsThenInsertions ==
    (dpc # "start" /\ da # <<>> /\ db # <<>> /\ Disjoint(da, db)) =>
        dout = AllDeletions(da) \o AllInsertions(db)

\* C3 amended: for non-empty a and b with no line in common and no line of a
\* similar to a line of b (ratio below 0.75), ndiff(a, b) has no Hint and no
\* Context record and is two blocks, all Deletions and all Insertions: the
\* Deletions first when b has at least as many lines as a, the Insertions
\* first when b has fewer lines than a.
C3_ShorterBlockFirst ==
    (/\ dpc # "start" /\ da # <<>> /\ db # <<>>
     /\ Disjoint(da, db) /\ NoClosePair(da, db)) =>
        dout = IF Len(db) < Len(da)
               THEN AllInsertions(db) \o AllDeletions(da)
               ELSE AllDeletions(da) \o AllInsertions(db)

C3_Witness ==
    /\ dpc # "start" /\ da # <<>> /\ db # <<>>
    /\ Disjoint(da, db) /\ NoClosePair(da, db)
    /\ Len(db) < Len(da)
    /\ dout = AllInsertions(db) \o AllDeletions(da)

\* C4 as stated: ndiff(a, b) with its Hints ignored and Insertion swapped
\* with Deletion is the same ordered sequence of (kind, text) records as
\* ndiff(b, a) with its Hints ignored.
C4_Symmetric ==
    dpc = "both" => Swapped(Records(dout)) = Records(dback)

\* C4 amended: ndiff(a, b) with its Hints ignored and Insertion swapped with
\* Deletion carries, in order, the same Context and Deletion lines as
\* ndiff(b, a), and the same Context and Insertion lines; the interleaving
\* of the records and the choice of Context lines may differ.
C4_SameProjections ==
    dpc = "both" =>
        /\ TextsOf(Swapped(Records(dout)), {" ", "-"})
              = TextsOf(Records(dback), {" ", "-"})
        /\ TextsOf(Swapped(Records(dout)), {" ", "+"})
              = TextsOf(Records(dback), {" ", "+"})

C4_Witness ==
    /\ dpc = "both"
    /\ Swapped(Records(dout)) # Records(dback)
    /\ TextsOf(Records(dout), {" "}) # TextsOf(Records(dback), {" "})

\* C5: when the two files are equal after normalization under the options
\* of the comparison on display, compare() shows only Context records, one
\* per line, and the counts added, removed and hints are all zero; for two
\* empty files the result is empty.
C5_EqualIsAllContext ==
    (/\ text # <<>>
     /\ normalize_lines(fsA, ShownOptions[2], ShownOptions[3])
           = normalize_lines(fsB, ShownOptions[2], ShownOptions[3])) =>
        /\ Len(ShownLines) = Len(fsA)
        /\ \A k \in 1..Len(ShownLines) : IsContext(ShownLines[k])
        /\ last_diff_lines = ShownLines
        /\ ShownSummary = <<"Summary:", 0, 0, 0>>
        /\ status \in {<<"Done.", 0, 0, 0>>, <<"Saved diff to">>}

C5_Witness ==
    /\ text # <<>>
    /\ Len(fsA) >= 2
    /\ \A k \in 1..Len(fsA) : k <= Len(fsB) /\ fsA[k] # fsB[k]
    /\ normalize_lines(fsA, ShownOptions[2], ShownOptions[3])
          = normalize_lines(fsB, ShownOptions[2], ShownOptions[3])
    /\ \A k \in 1..Len(ShownLines) : IsContext(ShownLines[k])

\* C6 as stated: every Hint record appears only between a Deletion and an
\* Insertion: it is never first and it directly follows a Deletion and
\* directly precedes an Insertion.
C6_HintBetweenPair ==
    \A k \in 1..Len(dout) :
        IsHint(dout[k]) =>
            /\ 1 < k /\ k < Len(dout)
            /\ IsDeletion(dout[k - 1])
            /\ IsInsertion(dout[k + 1])

\* C6 amended: every Hint record directly follows the Deletion or the
\* Insertion of a Deletion/Insertion pair: either it directly follows the
\* Deletion and directly precedes the Insertion, or it directly follows the
\* Insertion, which follows the Deletion directly or after the Deletion's
\* own Hint.  A Hint is never first and never directly follows a Context
\* record or another Hint.
C6_HintFollowsItsLine ==
    \A k \in 1..Len(dout) :
        IsHint(dout[k]) =>
            /\ 1 < k
            /\ \/ /\ IsDeletion(dout[k - 1])
                  /\ k < Len(dout)
                  /\ IsInsertion(dout[k + 1])
               \/ /\ IsInsertion(dout[k - 1])
                  /\ 2 < k
                  /\ \/ IsDeletion(dout[k - 2])
                     \/ /\ IsHint(dout[k - 2])
                        /\ 3 < k
                        /\ IsDeletion(dout[k - 3])

C6_Witness ==
    /\ Len(dout) >= 4
    /\ IsDeletion(dout[Len(dout) - 3])
    /\ IsHint(dout[Len(dout) - 2])
    /\ IsInsertion(dout[Len(dout) - 1])
    /\ IsHint(dout[Len(dout)])

ErrorDialogs == {"Missing file", "Invalid file", "Read error", "Save error"}

\* C7: a compare() that stops on a missing selection, a path that does not
\* exist or a file that cannot be read, and a save_diff() whose write fails,
\* leave the displayed text and last_diff_lines as they were before the call.
C7_ErrorsKeepState ==
    [][dialog' \in ErrorDialogs =>
          (text' = text /\ last_diff_lines' = last_diff_lines)]_vars

C7_Witness ==
    /\ dialog = "Read error"
    /\ last_diff_lines # <<>>
    /\ ShownLines = last_diff_lines
    /\ saved # <<>>

\* C8: the output of normalize_lines has exactly len(L) entries, entry i is
\* the normalization of L[i] alone, and with both flags false it equals L.
C8_LengthAndOrder ==
    npass >= 1 =>
        /\ Len(nout) = Len(nlines)
        /\ \A i \in 1..Len(nlines) :
              /\ Len(normalize_lines(<<nlines[i]>>, nic, niw)) = 1
              /\ nout[i] = normalize_lines(<<nlines[i]>>, nic, niw)[1]
        /\ (~nic /\ ~niw) => nout = nlines

C8_Witness ==
    /\ npass >= 1
    /\ Len(nlines) = 2
    /\ nlines[1] # nlines[2]
    /\ nout[1] # nlines[1]
    /\ Len(nout[1]) # Len(nlines[1])
    /\ nout[2] = <<>>

\* C9: normalize(normalize(L, o), o) = normalize(L, o).
C9_Idempotent ==
    npass = 2 => nagain = nout

C9_Witness ==
    /\ npass = 2
    /\ nic /\ niw
    /\ nout # nlines
    /\ \E i \in 1..Len(nout) : Len(nout[i]) > Len(nlines[i])
    /\ \E i \in 1..Len(nout) : Len(nout[i]) < Len(nlines[i])

\* C10: last_diff_lines is exactly the edit-record lines shown below the
\* header; after a successful compare, a save_diff that writes, writes
\* exactly those lines; and save_diff reports "nothing to save" only when
\* no comparison result is on display.
C10_SaveMatchesScreen ==
    /\ last_diff_lines = ShownLines
    /\ status = <<"Saved diff to">> =>
          (saved # <<>> /\ saved[1] = Concat(ShownLines))
    /\ dialog = "No diff" => text = <<>>

====
